---- MODULE Spec2Model ----
(***************************************************************************)
(* A model of the Ito++ option-pricing library:                            *)
(*   - ito::math          normal_pdf / normal_cdf            (math.hpp)     *)
(*   - ito::model         BlackScholesModel and its caches                  *)
(*   - ito::method        MonteCarloPricer, sequential and parallel paths   *)
(*                                                                         *)
(* The arithmetic type T (double) is modelled as IEEE-style extended       *)
(* fixed point: a number is finite (an integer count of 1/ONE units), an   *)
(* infinity with a sign, or NaN.  Division by zero, 0/0, inf-inf and       *)
(* 0*inf follow the IEEE rules, so the code's silent NaN/inf results are   *)
(* visible to the checks.                                                  *)
(***************************************************************************)
EXTENDS Integers, Sequences, FiniteSets, TLC

(***************************************************************************)
(* The arithmetic type T                                                   *)
(***************************************************************************)

\* Units per 1.0: the precision of T.
ONE == 1000

\* Largest finite magnitude of T (in units); beyond it a result overflows to
\* an infinity, as a double does beyond DBL_MAX.
MaxMag == 5 * 10^8

NaN == [k |-> "nan", v |-> 0]

PInf == [k |-> "inf", v |-> 1]

NInf == [k |-> "inf", v |-> -1]

\* The values of T.  The arithmetic below is written as functions on Num:
\* a function is applied to the values of its arguments, as the machine
\* operations are.
Num == [k : {"fin", "inf", "nan"}, v : Int]

\* An operator applied to the value of its argument: the argument is
\* evaluated once, whatever the operator does with it.
Force1(F(_), x) == CHOOSE r \in {F(a) : a \in {x}} : TRUE

Fin(n) ==
  IF n > MaxMag THEN PInf
  ELSE IF n < -MaxMag THEN NInf
  ELSE [k |-> "fin", v |-> n]

Zero == [k |-> "fin", v |-> 0]

One == [k |-> "fin", v |-> ONE]

Two == [k |-> "fin", v |-> 2 * ONE]

IsFin(x) == x.k = "fin"

IsNaN(x) == x.k = "nan"

IsInf(x) == x.k = "inf"

IsZero(x) == x = Zero

Abs(n) == IF n < 0 THEN -n ELSE n

Sgn(n) == IF n < 0 THEN -1 ELSE IF n > 0 THEN 1 ELSE 0

\* The sign of a divisor or factor; a zero counts as +0.
SgnP(n) == IF n < 0 THEN -1 ELSE 1

\* n / d rounded to the nearest integer, ties away from zero (d # 0).
RDiv(n, d) ==
  LET q == Abs(n) \div Abs(d)
      r == Abs(n) % Abs(d)
      m == IF 2 * r >= Abs(d) THEN q + 1 ELSE q
  IN  Sgn(n) * SgnP(d) * m

\* A decimal constant given in units of 1e-9, rounded to T's precision.
Dec9(n) == RDiv(n, 10^9 \div ONE)

Neg[x \in Num] == [x EXCEPT !.v = -x.v]

Add[x \in Num, y \in Num] ==
  IF IsNaN(x) \/ IsNaN(y) THEN NaN
  ELSE IF IsInf(x) THEN (IF IsInf(y) /\ y.v # x.v THEN NaN ELSE x)
  ELSE IF IsInf(y) THEN y
  ELSE Fin(x.v + y.v)

Sub[x \in Num, y \in Num] == Add[x, Neg[y]]

\* |a| * |b| / ONE for unit counts a, b, without overflowing TLC's
\* integers: -1 stands for a product beyond MaxMag.
MulMag(a, b) ==
  LET ah == a \div ONE
      al == a % ONE
      bh == b \div ONE
      bl == b % ONE
  IN  IF ah # 0 /\ bh > (MaxMag \div ONE) \div ah THEN -1
      ELSE ah * bh * ONE + ah * bl + al * bh + RDiv(al * bl, ONE)

\* A finite result of sign s and magnitude m, where m = -1 is an overflow.
Signed[s \in Int, m \in Int] ==
  IF m < 0 THEN (IF s > 0 THEN PInf ELSE NInf) ELSE Fin(s * m)

Mul[x \in Num, y \in Num] ==
  IF IsNaN(x) \/ IsNaN(y) THEN NaN
  ELSE IF IsInf(x) \/ IsInf(y)
       THEN (IF IsZero(x) \/ IsZero(y) THEN NaN
             ELSE IF Sgn(x.v) * Sgn(y.v) > 0 THEN PInf ELSE NInf)
  ELSE Signed[Sgn(x.v) * Sgn(y.v), MulMag(Abs(x.v), Abs(y.v))]

\* |a| * ONE / |b| for unit counts a >= 0, b > 0; -1 stands for overflow.
DivMag(a, b) ==
  LET q == a \div b
      r == a % b
      f == IF b <= MaxMag \div ONE THEN RDiv(r * ONE, b)
           ELSE RDiv(r, RDiv(b, ONE))
  IN  IF q > MaxMag \div ONE THEN -1 ELSE q * ONE + f

Div[x \in Num, y \in Num] ==
  IF IsNaN(x) \/ IsNaN(y) THEN NaN
  ELSE IF IsInf(x)
       THEN (IF IsInf(y) THEN NaN
             ELSE IF x.v * SgnP(y.v) > 0 THEN PInf ELSE NInf)
  ELSE IF IsInf(y) THEN Zero
  ELSE IF y.v = 0
       THEN (IF x.v = 0 THEN NaN ELSE IF x.v > 0 THEN PInf ELSE NInf)
  ELSE Signed[Sgn(x.v) * Sgn(y.v), DivMag(Abs(x.v), Abs(y.v))]

\* The position of a non-NaN number on the extended line.
Ord(x) == IF IsInf(x) THEN x.v * (MaxMag + 1) ELSE x.v

\* x < y: false when either is NaN.
Lt[x \in Num, y \in Num] == ~IsNaN(x) /\ ~IsNaN(y) /\ Ord(x) < Ord(y)

\* x <= y: false when either is NaN.
Le[x \in Num, y \in Num] == ~IsNaN(x) /\ ~IsNaN(y) /\ Ord(x) <= Ord(y)

\* std::max(a, b): (a < b) ? b : a
Max[a \in Num, b \in Num] == IF Lt[a, b] THEN b ELSE a

\* Floor of the square root of n >= 1, by bisection on [lo, hi].
ISqrtIn[n \in Nat, lo \in Nat, hi \in Nat] ==
  IF lo >= hi THEN lo
  ELSE IF (lo + hi + 1) \div 2 <= n \div ((lo + hi + 1) \div 2)
       THEN ISqrtIn[n, (lo + hi + 1) \div 2, hi]
       ELSE ISqrtIn[n, lo, ((lo + hi + 1) \div 2) - 1]

ISqrt[n \in Int] == IF n <= 0 THEN 0 ELSE ISqrtIn[n, 1, n]

\* std::sqrt
Sqrt[x \in Num] ==
  IF IsNaN(x) THEN NaN
  ELSE IF IsInf(x) THEN (IF x.v > 0 THEN PInf ELSE NaN)
  ELSE IF x.v < 0 THEN NaN
  ELSE IF x.v <= MaxMag \div ONE THEN Fin(ISqrt[x.v * ONE])
  ELSE Fin(ISqrt[x.v] * ISqrt[ONE])

\* The Taylor series of e^w for 0 <= w <= 1: the sum so far, the next term
\* and its index n.
ExpSeries[w \in Num, sum \in Num, term \in Num, n \in Nat] ==
  IF IsZero(term) \/ n > 20 THEN sum
  ELSE ExpSeries[w, Add[sum, term], Div[Mul[term, w], Fin(n * ONE)], n + 1]

\* e^w for a finite w >= 0, halving the argument until it is at most 1.
ExpPos[w \in Num] ==
  IF w.v <= ONE THEN ExpSeries[w, Zero, One, 1]
  ELSE IF w.v % 2 = 0
       THEN Force1(LAMBDA h : Mul[h, h], ExpPos[Fin(w.v \div 2)])
       ELSE Mul[Force1(LAMBDA h : Mul[h, h], ExpPos[Fin(w.v \div 2)]),
                ExpSeries[Fin(1), Zero, One, 1]]

\* std::exp
Exp[x \in Num] ==
  IF IsNaN(x) THEN NaN
  ELSE IF IsInf(x) THEN (IF x.v > 0 THEN PInf ELSE Zero)
  ELSE IF x.v >= 0 THEN ExpPos[x]
  ELSE Div[One, ExpPos[Neg[x]]]

LN2 == Fin(Dec9(693147181))

\* The series z + z^3/3 + z^5/5 + ... (atanh z): the sum so far, the next
\* odd power of z and its exponent n.
AtanhSeries[z \in Num, sum \in Num, pow \in Num, n \in Nat] ==
  IF IsZero(pow) \/ n > 21 THEN sum
  ELSE AtanhSeries[z, Add[sum, Div[pow, Fin(n * ONE)]],
                   Mul[Mul[pow, z], z], n + 2]

\* ln w for a finite w > 0, scaling by 2 into [1/2, 2].
LogPos[w \in Num] ==
  IF w.v > 2 * ONE THEN Add[LN2, LogPos[Fin(RDiv(w.v, 2))]]
  ELSE IF 2 * w.v < ONE THEN Sub[LogPos[Fin(2 * w.v)], LN2]
  ELSE Force1(LAMBDA z : Mul[Two, AtanhSeries[z, Zero, z, 1]],
              Div[Sub[w, One], Add[w, One]])

\* std::log
Log[x \in Num] ==
  IF IsNaN(x) THEN NaN
  ELSE IF IsInf(x) THEN (IF x.v > 0 THEN PInf ELSE NaN)
  ELSE IF x.v < 0 THEN NaN
  ELSE IF x.v = 0 THEN NInf
  ELSE LogPos[x]

(***************************************************************************)
(* ito::math                                                               *)
(***************************************************************************)

inv_sqrt_2pi == Fin(Dec9(398942280))

\* f(x) = (1/sqrt(2pi)) * exp(-(x^2)/2)
normal_pdf[x \in Num] == Mul[inv_sqrt_2pi, Exp[Div[Mul[Neg[x], x], Two]]]

a1 == Fin(Dec9(319381530))

a2 == Fin(-Dec9(356563782))

a3 == Fin(Dec9(1781477937))

a4 == Fin(-Dec9(1821255978))

a5 == Fin(Dec9(1330274429))

p == Fin(Dec9(231641900))

\* poly = t * (a1 + t * (a2 + t * (a3 + t * (a4 + t * a5))))
poly[t \in Num] ==
  Mul[t, Add[a1, Mul[t, Add[a2, Mul[t, Add[a3, Mul[t, Add[a4, Mul[t, a5]]]]]]]]]

\* Abramowitz & Stegun, by Horner's method; x < 0 reflects once.
normal_cdf[x \in Num] ==
  IF Lt[x, Zero] THEN Sub[One, normal_cdf[Neg[x]]]
  ELSE Sub[One, Mul[normal_pdf[x], poly[Div[One, Add[One, Mul[p, x]]]]]]

(***************************************************************************)
(* ito::model::BlackScholesModel                                           *)
(***************************************************************************)

\* Bound of the market parameters tried: spot, strike and maturity range
\* over -1.0, 0.0, ..., MaxUnits.0.
MaxUnits == 2

\* Bound on the number of public reads made on one model object.
MaxReads == 3

UnitValues == {Fin(i * ONE) : i \in -1 .. MaxUnits}

\* Volatilities tried: -0.2, 0.0, 0.2.
VolValues == {Fin(i * (ONE \div 5)) : i \in -1 .. 1}

\* Rates tried: -0.05, 0.0, 0.05.
RateValues == {Fin(i * (ONE \div 20)) : i \in -1 .. 1}

\* BlackScholesCreateInfo<T>
BlackScholesCreateInfo ==
  [spot_price : UnitValues, strike_price : UnitValues,
   risk_free_rate : RateValues, volatility : VolValues,
   time_to_maturity : UnitValues]

\* validate(): TRUE when it throws std::invalid_argument.
\* A faulty validate that also rejects a zero volatility.
validate_throws_vol_le(info) ==
  \/ Le[info.spot_price, Zero]
  \/ Le[info.strike_price, Zero]
  \/ Le[info.volatility, Zero]
  \/ Le[info.time_to_maturity, Zero]

validate_throws(info) ==
  \/ Le[info.spot_price, Zero]
  \/ Le[info.strike_price, Zero]
  \/ Lt[info.volatility, Zero]
  \/ Le[info.time_to_maturity, Zero]

\* struct Greeks, default-initialised.
Greeks0 ==
  [delta |-> Zero, gamma |-> Zero, vega |-> Zero, theta |-> Zero, rho |-> Zero]

\* The members of a BlackScholesModel after the constructor's initialisers.
NewModel(info) ==
  [S_ |-> info.spot_price, K_ |-> info.strike_price,
   r_ |-> info.risk_free_rate, sigma_ |-> info.volatility,
   T_ |-> info.time_to_maturity,
   d1_ |-> Zero, d2_ |-> Zero, d_cached_ |-> FALSE,
   call_greeks_ |-> Greeks0, put_greeks_ |-> Greeks0,
   call_greeks_cached_ |-> FALSE, put_greeks_cached_ |-> FALSE]

\* The divisor of d1: sigma * sqrt(T).
sigma_sqrt_T(m) == Mul[m.sigma_, Sqrt[m.T_]]

\* The divisor of gamma: S * sigma * sqrt(T).
gamma_divisor(m) == Mul[Mul[m.S_, m.sigma_], Sqrt[m.T_]]

exp_neg_rT(m) == Exp[Mul[Neg[m.r_], m.T_]]

\* d1 = [ln(S/K) + (r + sigma^2/2)*T] / (sigma * sqrt(T))
d1_value(m) ==
  Div[Add[Log[Div[m.S_, m.K_]],
          Mul[Add[m.r_, Div[Mul[m.sigma_, m.sigma_], Two]], m.T_]],
      sigma_sqrt_T(m)]

compute_d(m) ==
  IF m.d_cached_ THEN m
  ELSE Force1(LAMBDA d1 : [m EXCEPT !.d1_ = d1,
                                    !.d2_ = Sub[d1, sigma_sqrt_T(m)],
                                    !.d_cached_ = TRUE],
              d1_value(m))

\* The body of compute_call_greeks after compute_d(), on the object c.
call_greeks_value(c) ==
  LET sqrt_T == Sqrt[c.T_]
      e == exp_neg_rT(c)
      phi_d1 == normal_pdf[c.d1_]
  IN  [delta |-> normal_cdf[c.d1_],
       gamma |-> Div[phi_d1, gamma_divisor(c)],
       vega  |-> Mul[Mul[c.S_, phi_d1], sqrt_T],
       theta |-> Sub[Div[Neg[Mul[Mul[c.S_, phi_d1], c.sigma_]],
                         Mul[Two, sqrt_T]],
                     Mul[Mul[Mul[c.r_, c.K_], e], normal_cdf[c.d2_]]],
       rho   |-> Mul[Mul[Mul[c.K_, c.T_], e], normal_cdf[c.d2_]]]

\* A faulty compute_call_greeks that uses d1_ and d2_ as it finds them.
compute_call_greeks_stale_d(m) ==
  IF m.call_greeks_cached_ THEN m
  ELSE Force1(LAMBDA c : [c EXCEPT !.call_greeks_ = call_greeks_value(c),
                                   !.call_greeks_cached_ = TRUE],
              m)

compute_call_greeks(m) ==
  IF m.call_greeks_cached_ THEN m
  ELSE Force1(LAMBDA c : [c EXCEPT !.call_greeks_ = call_greeks_value(c),
                                   !.call_greeks_cached_ = TRUE],
              compute_d(m))

\* The body of compute_put_greeks after compute_d(), on the object c.
put_greeks_value(c) ==
  LET sqrt_T == Sqrt[c.T_]
      e == exp_neg_rT(c)
      phi_d1 == normal_pdf[c.d1_]
  IN  [delta |-> Sub[normal_cdf[c.d1_], One],
       gamma |-> Div[phi_d1, gamma_divisor(c)],
       vega  |-> Mul[Mul[c.S_, phi_d1], sqrt_T],
       theta |-> Add[Div[Neg[Mul[Mul[c.S_, phi_d1], c.sigma_]],
                         Mul[Two, sqrt_T]],
                     Mul[Mul[Mul[c.r_, c.K_], e], normal_cdf[Neg[c.d2_]]]],
       rho   |-> Mul[Mul[Mul[Neg[c.K_], c.T_], e], normal_cdf[Neg[c.d2_]]]]

\* A faulty compute_put_greeks that keeps one Greeks cache for both sides.
compute_put_greeks_shared(m) ==
  IF m.put_greeks_cached_ THEN m
  ELSE Force1(LAMBDA c : [c EXCEPT !.put_greeks_ = put_greeks_value(c),
                                   !.put_greeks_cached_ = TRUE,
                                   !.call_greeks_ = put_greeks_value(c),
                                   !.call_greeks_cached_ = TRUE],
              compute_d(m))

compute_put_greeks(m) ==
  IF m.put_greeks_cached_ THEN m
  ELSE Force1(LAMBDA c : [c EXCEPT !.put_greeks_ = put_greeks_value(c),
                                   !.put_greeks_cached_ = TRUE],
              compute_d(m))

\* The public reads: each gives the object after the call (m) and the value
\* returned (ret).

\* C = S*Phi(d1) - K*e^(-rT)*Phi(d2)
call_price(m) ==
  Force1(LAMBDA c : [m |-> c,
                     ret |-> Sub[Mul[c.S_, normal_cdf[c.d1_]],
                                 Mul[Mul[c.K_, exp_neg_rT(c)],
                                     normal_cdf[c.d2_]]]],
         compute_d(m))

\* P = C - S + K*e^(-rT)
put_price(m) ==
  Force1(LAMBDA c : [m |-> c.m,
                     ret |-> Add[Sub[c.ret, c.m.S_],
                                 Mul[c.m.K_, exp_neg_rT(c.m)]]],
         call_price(m))

call_greeks(m) ==
  Force1(LAMBDA c : [m |-> c, ret |-> c.call_greeks_], compute_call_greeks(m))

put_greeks(m) ==
  Force1(LAMBDA c : [m |-> c, ret |-> c.put_greeks_], compute_put_greeks(m))

ReadOps == {"call_price", "put_price", "call_greeks", "put_greeks"}

(***************************************************************************)
(* ito::method::MonteCarloPricer                                           *)
(***************************************************************************)

\* Force1 for two and for three arguments.
Force2(F(_, _), x, y) == CHOOSE r \in {F(a, b) : a \in {x}, b \in {y}} : TRUE

Force3(F(_, _, _), x, y, z) ==
  CHOOSE r \in {F(a, b, c) : a \in {x}, b \in {y}, c \in {z}} : TRUE

\* for (size_t i = lo; i < hi; ++i) acc = Body(acc, i), in this order.  The
\* range is split in halves so that a long loop nests only to the depth of
\* its binary logarithm.
RECURSIVE ForV(_, _, _, _)
ForV(Body(_, _), acc, lo, hi) ==
  IF lo >= hi THEN acc
  ELSE IF hi = lo + 1 THEN Body(acc, lo)
  ELSE Force3(LAMBDA a, m, h : ForV(Body, a, m, h),
              Force3(LAMBDA a, l, m : ForV(Body, a, l, m),
                     acc, lo, (lo + hi) \div 2),
              (lo + hi) \div 2, hi)

For(Body(_, _), acc, lo, hi) ==
  Force3(LAMBDA a, l, h : ForV(Body, a, l, h), acc, lo, hi)

\* size_t, narrowed to SizeBits bits: unsigned arithmetic wraps.
SizeBits == 16

SizeSub(a, b) == (a - b) % (2^SizeBits)

\* static_cast<T>(n) of a size_t n.
FromSize(n) == Fin(n * ONE)

\* MonteCarloCreateInfo<T>::ExecutionPolicy
ExecutionPolicy == {"Auto", "Sequential", "Parallel"}

\* The trial count from which policy Auto runs the parallel path.
AutoParallelThreshold == 10000

\* The generator state reached by one draw, and the state after seeding.
\* Together rng_ and normal_ are a deterministic stream of variates fixed by
\* the seed; it is modelled as a full-period congruential generator whose
\* state s gives the variate (2s - 7)/4.
RngMod == 8

RngMul == 5

RngInc == 3

\* rng_(config.seed)
SeedRng(seed) == seed % RngMod

RngNext(s) == (RngMul * s + RngInc) % RngMod

VariateOf(s) == Fin((2 * s - (RngMod - 1)) * (ONE \div 4))

\* normal_(rng_): the generator after the draw and the variate drawn.
\* A faulty draw made on a copy of the generator, which is left where it was.
Draw_copy(rng) ==
  Force1(LAMBDA s : [rng |-> rng, Z |-> VariateOf(s)], RngNext(rng))

Draw(rng) ==
  Force1(LAMBDA s : [rng |-> s, Z |-> VariateOf(s)], RngNext(rng))

\* The market inputs of a pricing call.
Market(S0, K, r, sigma, time) ==
  [S0 |-> S0, K |-> K, r |-> r, sigma |-> sigma, time |-> time]

\* drift = (r - sigma^2/2) * T
drift_of(a) == Mul[Sub[a.r, Div[Mul[a.sigma, a.sigma], Two]], a.time]

\* simulate_gbm_terminal(S0, r, sigma, time) on generator state rng: the
\* generator after the call, the variate drawn and the value returned.
simulate_gbm_terminal(rng, a) ==
  Force1(LAMBDA d :
           [rng |-> d.rng, Z |-> d.Z,
            ST |-> Mul[a.S0,
                       Exp[Add[drift_of(a),
                               Mul[Mul[a.sigma, Sqrt[a.time]], d.Z]]]]],
         Draw(rng))

\* The lambda of the first parallel transform.
terminal_price_of(S0, drift, vol_sqrt_t, Z) ==
  Mul[S0, Exp[Add[drift, Mul[vol_sqrt_t, Z]]]]

\* max(ST - K, 0) and max(K - ST, 0)
call_payoff(ST, K) == Max[Sub[ST, K], Zero]

put_payoff(ST, K) == Max[Sub[K, ST], Zero]

\* MonteCarloResult<T>
MonteCarloResult(price, standard_error) ==
  [price |-> price, standard_error |-> standard_error]

compute_statistics(payoffs, discount_factor) ==
  LET N == Len(payoffs)
      sum == For(LAMBDA acc, i : Add[acc, payoffs[i + 1]], Zero, 0, N)
      VarianceOf(mean) ==
        Div[For(LAMBDA acc, i :
                  Force1(LAMBDA diff : Add[acc, Mul[diff, diff]],
                         Sub[payoffs[i + 1], mean]),
                Zero, 0, N),
            FromSize(SizeSub(N, 1))]
      Result(mean) ==
        MonteCarloResult(
          Mul[discount_factor, mean],
          Mul[discount_factor, Sqrt[Div[VarianceOf(mean), FromSize(N)]]])
  IN  Force1(Result, Div[sum, FromSize(N)])

\* CallPutResult and what the call did, kept for the record of the call:
\* the path taken, per trial the variate and the terminal price used, both
\* payoff vectors, and the number of draws made from the generator.
CallRecord(path, f, a) ==
  [path |-> path,
   zs |-> IF path = "parallel" THEN f.random_normals ELSE f.zs,
   sts |-> IF path = "parallel" THEN f.terminal_prices ELSE f.sts,
   call_payoffs |-> f.call_payoffs,
   put_payoffs |-> f.put_payoffs,
   ndraws |-> f.ndraws,
   result |-> [call |-> compute_statistics(f.call_payoffs,
                                           Exp[Mul[Neg[a.r], a.time]]),
               put |-> compute_statistics(f.put_payoffs,
                                          Exp[Mul[Neg[a.r], a.time]])]]

\* The frame of a pricing call: where it is (pc), the engine it runs on (e),
\* the loop index (i), the tasks of the running parallel transform not yet
\* executed (pending), the local vectors, and for the record of the call the
\* variates and terminal prices of the sequential loop (zs, sts) and the
\* number of draws (ndraws).
IdleFrame ==
  [pc |-> "idle", e |-> 0, i |-> 0, pending |-> {},
   random_normals |-> <<>>, terminal_prices |-> <<>>,
   call_payoffs |-> <<>>, put_payoffs |-> <<>>,
   zs |-> <<>>, sts |-> <<>>, ndraws |-> 0]

\* std::vector<T> v(n): n value-initialised elements.
Zeros(n) == [j \in 1 .. n |-> Zero]

\* A faulty switch whose policy Auto goes parallel only above the threshold.
SelectedPath_gt(config) ==
  CASE config.policy = "Sequential" -> "sequential"
    [] config.policy = "Parallel" -> "parallel"
    [] OTHER -> IF config.num_simulations > AutoParallelThreshold
                THEN "parallel" ELSE "sequential"

\* The switch of price_european_call_and_put.
SelectedPath(config) ==
  CASE config.policy = "Sequential" -> "sequential"
    [] config.policy = "Parallel" -> "parallel"
    [] OTHER -> IF config.num_simulations >= AutoParallelThreshold
                THEN "parallel" ELSE "sequential"

\* price_european_call_and_put_sequential: entry, one loop iteration, return.
seq_enter(e) == [IdleFrame EXCEPT !.pc = "seq_loop", !.e = e]

\* A faulty iteration that simulates a second terminal price for the put.
seq_iteration_redraw(rng, f, a) ==
  Force1(LAMBDA s :
           Force1(LAMBDA s2 :
                    [rng |-> s2.rng,
                     f |-> [f EXCEPT !.i = f.i + 1,
                                     !.zs = Append(f.zs, s.Z),
                                     !.sts = Append(f.sts, s.ST),
                                     !.call_payoffs =
                                        Append(f.call_payoffs,
                                               call_payoff(s.ST, a.K)),
                                     !.put_payoffs =
                                        Append(f.put_payoffs,
                                               put_payoff(s2.ST, a.K)),
                                     !.ndraws = f.ndraws + 2]],
                  simulate_gbm_terminal(s.rng, a)),
         simulate_gbm_terminal(rng, a))

seq_iteration(rng, f, a) ==
  Force1(LAMBDA s :
           [rng |-> s.rng,
            f |-> [f EXCEPT !.i = f.i + 1,
                            !.zs = Append(f.zs, s.Z),
                            !.sts = Append(f.sts, s.ST),
                            !.call_payoffs =
                               Append(f.call_payoffs, call_payoff(s.ST, a.K)),
                            !.put_payoffs =
                               Append(f.put_payoffs, put_payoff(s.ST, a.K)),
                            !.ndraws = f.ndraws + 1]],
         simulate_gbm_terminal(rng, a))

\* price_european_call_and_put_parallel: entry, one iteration of the draw
\* loop, and per transform its start and the task of element k.
par_enter(e, N) ==
  [IdleFrame EXCEPT !.pc = "par_draw", !.e = e, !.random_normals = Zeros(N)]

\* A faulty draw loop that fills random_normals from its end.
par_draw_reversed(rng, f) ==
  Force1(LAMBDA d :
           [rng |-> d.rng,
            f |-> [f EXCEPT !.i = f.i + 1,
                            !.random_normals[Len(f.random_normals) - f.i] = d.Z,
                            !.ndraws = f.ndraws + 1]],
         Draw(rng))

par_draw(rng, f) ==
  Force1(LAMBDA d :
           [rng |-> d.rng,
            f |-> [f EXCEPT !.i = f.i + 1,
                            !.random_normals[f.i + 1] = d.Z,
                            !.ndraws = f.ndraws + 1]],
         Draw(rng))

par_start_prices(f, N) ==
  [f EXCEPT !.pc = "par_prices", !.terminal_prices = Zeros(N),
            !.pending = 1 .. N]

par_price_task(f, k, a) ==
  [f EXCEPT !.terminal_prices[k] =
              terminal_price_of(a.S0, drift_of(a),
                                Mul[a.sigma, Sqrt[a.time]],
                                f.random_normals[k]),
            !.pending = f.pending \ {k}]

par_start_calls(f, N) ==
  [f EXCEPT !.pc = "par_calls", !.call_payoffs = Zeros(N),
            !.put_payoffs = Zeros(N), !.pending = 1 .. N]

\* A faulty task of the second transform that writes the next free element
\* of call_payoffs, as a push_back would.
par_call_task_next_free(f, k, a) ==
  [f EXCEPT !.call_payoffs[Len(f.call_payoffs) - Cardinality(f.pending) + 1] =
              call_payoff(f.terminal_prices[k], a.K),
            !.pending = f.pending \ {k}]

par_call_task(f, k, a) ==
  [f EXCEPT !.call_payoffs[k] = call_payoff(f.terminal_prices[k], a.K),
            !.pending = f.pending \ {k}]

par_start_puts(f, N) == [f EXCEPT !.pc = "par_puts", !.pending = 1 .. N]

par_put_task(f, k, a) ==
  [f EXCEPT !.put_payoffs[k] = put_payoff(f.terminal_prices[k], a.K),
            !.pending = f.pending \ {k}]

\* The three functions as wholes, on the engine e with generator state rng:
\* the generator state left behind and the record of the call.
price_european_call_and_put_sequential(rng, config, a, e) ==
  Force1(LAMBDA s : [rng |-> s.rng, ret |-> CallRecord("sequential", s.f, a)],
         For(LAMBDA acc, i : seq_iteration(acc.rng, acc.f, a),
             [rng |-> rng, f |-> seq_enter(e)],
             0, config.num_simulations))

price_european_call_and_put_parallel(rng, config, a, e) ==
  Force1(LAMBDA s :
           [rng |-> s.rng,
            ret |->
              CallRecord("parallel",
                For(LAMBDA f, k : par_put_task(f, k + 1, a),
                    par_start_puts(
                      For(LAMBDA f, k : par_call_task(f, k + 1, a),
                          par_start_calls(
                            For(LAMBDA f, k : par_price_task(f, k + 1, a),
                                par_start_prices(s.f, config.num_simulations),
                                0, config.num_simulations),
                            config.num_simulations),
                          0, config.num_simulations),
                      config.num_simulations),
                    0, config.num_simulations),
                a)],
         For(LAMBDA acc, i : par_draw(acc.rng, acc.f),
             [rng |-> rng, f |-> par_enter(e, config.num_simulations)],
             0, config.num_simulations))

price_european_call_and_put(rng, config, a, e) ==
  IF SelectedPath(config) = "parallel"
  THEN price_european_call_and_put_parallel(rng, config, a, e)
  ELSE price_european_call_and_put_sequential(rng, config, a, e)

\* Bounds of the simulation model: trial counts 0 .. MaxSims, at most
\* MaxCalls pricing calls per engine.
MaxSims == 2

MaxCalls == 2

Engines == {1, 2}

Seeds == {42, 43}

\* The market inputs tried: a strike at the spot and a strike above it.
MarketInputs ==
  {Market(One, Fin(k), Fin(ONE \div 20), Fin(ONE \div 5), One) :
     k \in {ONE, ONE + ONE \div 4}}

\* MonteCarloCreateInfo<T>
MonteCarloCreateInfo(sims) ==
  [num_simulations : sims, seed : Seeds, policy : ExecutionPolicy]

NoMarket == Market(Zero, Zero, Zero, Zero, Zero)

NoConfig == [num_simulations |-> 0, seed |-> 0, policy |-> "Auto"]

(***************************************************************************)
(* The type T at twelve decimals, for the properties of ito::math that are *)
(* stated to 1e-10: a sign and a magnitude of NLimbs digits in base Limb,  *)
(* lowest first, the lowest FracLimbs of them after the point              *)
(***************************************************************************)

Limb == 10000

FracLimbs == 3

NLimbs == 5

HpMag == [1 .. NLimbs -> 0 .. Limb - 1]

HpNum == [s : {-1, 1}, m : HpMag]

\* The number i.f1f2f3 (i < Limb, each f a group of four decimals).
HpDec(s, i, f1, f2, f3) == [s |-> s, m |-> <<f3, f2, f1, i, 0>>]

HpZero == HpDec(1, 0, 0, 0, 0)

HpOne == HpDec(1, 1, 0, 0, 0)

HpTwo == HpDec(1, 2, 0, 0, 0)

HpIsZero(x) == \A i \in 1 .. NLimbs : x.m[i] = 0

\* The digits of a sequence of digit sums r with carry c coming in.
Carry[r \in Seq(Int), c \in Int] ==
  IF r = <<>> THEN <<>>
  ELSE <<(Head(r) + c) % Limb>> \o Carry[Tail(r), (Head(r) + c) \div Limb]

\* a < b on magnitudes, compared from digit i down.
MagLt[a \in HpMag, b \in HpMag, i \in 0 .. NLimbs] ==
  IF i = 0 THEN FALSE
  ELSE IF a[i] # b[i] THEN a[i] < b[i]
  ELSE MagLt[a, b, i - 1]

MagAdd[a \in HpMag, b \in HpMag] ==
  Carry[[i \in 1 .. NLimbs |-> a[i] + b[i]], 0]

\* a - b for a >= b.
MagSub[a \in HpMag, b \in HpMag] ==
  Carry[[i \in 1 .. NLimbs |-> a[i] - b[i]], 0]

HpSigned[s \in {-1, 1}, m \in HpMag] ==
  [s |-> IF \A i \in 1 .. NLimbs : m[i] = 0 THEN 1 ELSE s, m |-> m]

HpNeg[x \in HpNum] == HpSigned[-x.s, x.m]

HpAdd[x \in HpNum, y \in HpNum] ==
  IF x.s = y.s THEN HpSigned[x.s, MagAdd[x.m, y.m]]
  ELSE IF MagLt[x.m, y.m, NLimbs] THEN HpSigned[y.s, MagSub[y.m, x.m]]
  ELSE HpSigned[x.s, MagSub[x.m, y.m]]

HpSub[x \in HpNum, y \in HpNum] == HpAdd[x, HpNeg[y]]

HpLt[x \in HpNum, y \in HpNum] ==
  IF x.s # y.s THEN x.s < y.s
  ELSE IF x.s = 1 THEN MagLt[x.m, y.m, NLimbs]
  ELSE MagLt[y.m, x.m, NLimbs]

\* The sum of the digit products of a and b that fall on digit k of a * b.
Conv[a \in HpMag, b \in HpMag, k \in Nat, i \in Nat] ==
  IF i > NLimbs THEN 0
  ELSE (IF k + 1 - i \in 1 .. NLimbs THEN a[i] * b[k + 1 - i] ELSE 0)
         + Conv[a, b, k, i + 1]

\* a * b rounded to the last digit kept.
MagMul[a \in HpMag, b \in HpMag] ==
  SubSeq(Carry[[k \in 1 .. 2 * NLimbs |->
                  Conv[a, b, k, 1] + (IF k = FracLimbs THEN Limb \div 2 ELSE 0)],
               0],
         FracLimbs + 1, FracLimbs + NLimbs)

HpMul[x \in HpNum, y \in HpNum] == HpSigned[x.s * y.s, MagMul[x.m, y.m]]

\* The digits i .. 1 of a / n for a small n > 0, with remainder r coming in.
DivDown[a \in HpMag, n \in Nat, i \in 0 .. NLimbs, r \in Nat] ==
  IF i = 0 THEN <<>>
  ELSE Append(DivDown[a, n, i - 1, (r * Limb + a[i]) % n],
              (r * Limb + a[i]) \div n)

HpDivInt[x \in HpNum, n \in Nat] == HpSigned[x.s, DivDown[x.m, n, NLimbs, 0]]

\* 1 / d for 1 <= d < 2 by Newton's iteration t <- t * (2 - d * t).
RecipSteps == 6

RecipFrom[d \in HpNum, t \in HpNum, n \in Nat] ==
  IF n = 0 THEN t
  ELSE RecipFrom[d, HpMul[t, HpSub[HpTwo, HpMul[d, t]]], n - 1]

HpRecip[d \in HpNum] == RecipFrom[d, HpDec(1, 0, 7500, 0, 0), RecipSteps]

\* std::exp(x) by its power series, for |x| up to 2.
HpExpTerms == 30

HpExpSeries[x \in HpNum, sum \in HpNum, term \in HpNum, n \in Nat] ==
  IF n > HpExpTerms \/ HpIsZero(term) THEN sum
  ELSE HpExpSeries[x, HpAdd[sum, term], HpDivInt[HpMul[term, x], n], n + 1]

HpExp[x \in HpNum] == HpExpSeries[x, HpZero, HpOne, 1]

\* The distance of x from y is at most e.
HpWithin(x, y, e) == ~HpLt[e, HpSub[x, y]] /\ ~HpLt[e, HpSub[y, x]]

(***************************************************************************)
(* ito::math at twelve decimals                                            *)
(***************************************************************************)

inv_sqrt_2pi_hp == HpDec(1, 0, 3989, 4228, 401)

a1_hp == HpDec(1, 0, 3193, 8153, 0)

a2_hp == HpDec(-1, 0, 3565, 6378, 2000)

a3_hp == HpDec(1, 1, 7814, 7793, 7000)

a4_hp == HpDec(-1, 1, 8212, 5597, 8000)

a5_hp == HpDec(1, 1, 3302, 7442, 9000)

p_hp == HpDec(1, 0, 2316, 4190, 0)

\* inv_sqrt_2pi * exp(-x * x / 2)
normal_pdf_hp[x \in HpNum] ==
  HpMul[inv_sqrt_2pi_hp, HpExp[HpDivInt[HpMul[HpNeg[x], x], 2]]]

\* t = 1 / (1 + p * x)
t_hp[x \in HpNum] == HpRecip[HpAdd[HpOne, HpMul[p_hp, x]]]

\* poly = t * (a1 + t * (a2 + t * (a3 + t * (a4 + t * a5))))
poly_hp[t \in HpNum] ==
  HpMul[t, HpAdd[a1_hp,
    HpMul[t, HpAdd[a2_hp,
      HpMul[t, HpAdd[a3_hp,
        HpMul[t, HpAdd[a4_hp, HpMul[t, a5_hp]]]]]]]]]

\* return 1 - normal_pdf(x) * poly
cdf_value_hp[x \in HpNum, poly_t \in HpNum] ==
  HpSub[HpOne, HpMul[normal_pdf_hp[x], poly_t]]

\* A frame of normal_cdf: its argument, where it stands, its locals t and
\* poly, and the value its recursive call returned.
CdfFrame(x) ==
  [x |-> x, pc |-> "test", t |-> HpZero, poly |-> HpZero, val |-> HpZero]

\* The arguments tried: the multiples of 1/8 up to MaxEighths of them, on
\* both sides of zero.
MaxEighths == 16

CdfInputs ==
  {HpSigned[s, <<0, 0, (k % 8) * (Limb \div 8), k \div 8, 0>>] :
     s \in {-1, 1}, k \in 0 .. MaxEighths}

VARIABLES
  bs_life,   \* "none": not constructed; "alive"; "failed": the constructor threw
  bs_info,   \* the create info handed to the constructor
  bs,        \* the members of the model object
  bs_log     \* the public reads made so far, in order: [op, ret]

bs_vars == <<bs_life, bs_info, bs, bs_log>>

NoInfo ==
  [spot_price |-> Zero, strike_price |-> Zero, risk_free_rate |-> Zero,
   volatility |-> Zero, time_to_maturity |-> Zero]

\* No object: the storage before construction, and after a constructor that
\* threw.
NoModel == NewModel(NoInfo)

VARIABLES
  market,    \* the arguments (S0, K, r, sigma, time) of the pricing calls
  mc_life,   \* per engine: "none" before construction, then "alive"
  config_,   \* per engine: MonteCarloCreateInfo config_
  rng_,      \* per engine: the state of the generator (rng_ with normal_)
  frame,     \* the pricing call in progress, IdleFrame when there is none
  mc_log     \* per engine: the records of its completed calls, in order

mc_vars == <<market, mc_life, config_, rng_, frame, mc_log>>

VARIABLES
  cdf        \* the caller of normal_cdf: its x, the stack of normal_cdf
             \* frames, and per finished call the value returned (rets) and
             \* the number of reflective calls it made (refl)

NoCdf == [x |-> HpZero, stack |-> <<>>, rets |-> <<>>, refl |-> <<>>]

(***************************************************************************)
(* Threads that read one BlackScholesModel without synchronisation.  The   *)
(* accesses to the mutable members are a data race; a store a thread has   *)
(* made may reach the object later than a store it made after it, so each  *)
(* thread holds the stores it has made that the object does not hold yet   *)
(***************************************************************************)

Threads == {1, 2}

\* The stores one thread may hold back at a time.
MaxBuffered == 2

\* The fields of Greeks, in the order compute_call_greeks writes them.
GreekFields == <<"delta", "gamma", "vega", "theta", "rho">>

\* A member of the object (g = ""), or a field of one of its Greeks members.
Member(f) == [g |-> "", f |-> f]

GreeksOf(op) == IF op = "call_greeks" THEN "call_greeks_" ELSE "put_greeks_"

GreeksFlagOf(op) ==
  Member(IF op = "call_greeks" THEN "call_greeks_cached_"
         ELSE "put_greeks_cached_")

MemAt(m, l) == IF l.g = "" THEN m[l.f] ELSE m[l.g][l.f]

MemStore(m, l, v) ==
  IF l.g = "" THEN [m EXCEPT ![l.f] = v] ELSE [m EXCEPT ![l.g][l.f] = v]

\* The stores of buf to location l, by their position.
StoresTo(buf, l) == {i \in 1 .. Len(buf) : buf[i].l = l}

\* What a thread holding back the stores buf reads at l in the object m: its
\* own last store to l, and without one what the object holds.
Sees(m, buf, l) ==
  IF StoresTo(buf, l) = {} THEN MemAt(m, l)
  ELSE buf[CHOOSE i \in StoresTo(buf, l) :
             \A j \in StoresTo(buf, l) : j <= i].v

\* The object as the thread sees its d1_ and d2_.
SeenModel(m, buf) ==
  [m EXCEPT !.d1_ = Sees(m, buf, Member("d1_")),
            !.d2_ = Sees(m, buf, Member("d2_")),
            !.d_cached_ = TRUE]

\* A thread: where it stands in its read, the read, the stores held back,
\* the Greeks it computed with the index of the next field to write, and
\* the value returned.
IdleThread ==
  [pc |-> "idle", op |-> "", buf |-> <<>>, g |-> Greeks0, gi |-> 1,
   ret |-> Zero]

NoThreads == [t \in Threads |-> IdleThread]

\* The contracts the threads read: at the money and out of the money.
ThreadInfos ==
  {[spot_price |-> One, strike_price |-> Fin(k), risk_free_rate |-> Fin(ONE \div 20),
    volatility |-> Fin(ONE \div 5), time_to_maturity |-> One] :
     k \in {ONE, 2 * ONE}}

VARIABLES
  th         \* per thread: its read in progress on the object bs

vars == <<bs_vars, mc_vars, cdf, th>>

(***************************************************************************)
(* The life of one BlackScholesModel: construction, then public reads      *)
(***************************************************************************)

BS_Init ==
  /\ bs_life = "none"
  /\ bs_info = NoInfo
  /\ bs = NoModel
  /\ bs_log = <<>>
  /\ market = NoMarket
  /\ mc_life = [e \in Engines |-> "none"]
  /\ config_ = [e \in Engines |-> NoConfig]
  /\ rng_ = [e \in Engines |-> 0]
  /\ frame = IdleFrame
  /\ mc_log = [e \in Engines |-> <<>>]
  /\ cdf = NoCdf
  /\ th = NoThreads

\* explicit BlackScholesModel(const BlackScholesCreateInfo<T>& info)
BS_construct(info) ==
  /\ bs_life = "none"
  /\ bs_info' = info
  /\ IF validate_throws(info)
     THEN bs_life' = "failed" /\ bs' = NoModel
     ELSE bs_life' = "alive" /\ bs' = NewModel(info)
  /\ UNCHANGED bs_log
  /\ UNCHANGED <<mc_vars, cdf, th>>

\* A public read r == op(bs) made by the caller.
BS_read(op, r) ==
  /\ bs_life = "alive"
  /\ Len(bs_log) < MaxReads
  /\ bs' = r.m
  /\ bs_log' = Append(bs_log, [op |-> op, ret |-> r.ret])
  /\ UNCHANGED <<bs_life, bs_info>>
  /\ UNCHANGED <<mc_vars, cdf, th>>

BS_call_price == BS_read("call_price", call_price(bs))

BS_put_price == BS_read("put_price", put_price(bs))

BS_call_greeks == BS_read("call_greeks", call_greeks(bs))

BS_put_greeks == BS_read("put_greeks", put_greeks(bs))

BS_Next ==
  \/ \E info \in BlackScholesCreateInfo : BS_construct(info)
  \/ BS_call_price
  \/ BS_put_price
  \/ BS_call_greeks
  \/ BS_put_greeks

SpecBS == BS_Init /\ [][BS_Next]_vars

(***************************************************************************)
(* The life of the MonteCarloPricer engines: construction, then pricing    *)
(* calls made one after another by a single caller, each call run step by  *)
(* step                                                                    *)
(***************************************************************************)

MC_Init ==
  /\ bs_life = "none"
  /\ bs_info = NoInfo
  /\ bs = NoModel
  /\ bs_log = <<>>
  /\ market \in MarketInputs
  /\ mc_life = [e \in Engines |-> "none"]
  /\ config_ = [e \in Engines |-> NoConfig]
  /\ rng_ = [e \in Engines |-> 0]
  /\ frame = IdleFrame
  /\ mc_log = [e \in Engines |-> <<>>]
  /\ cdf = NoCdf
  /\ th = NoThreads

\* The trial count of the call in progress.
N_ == config_[frame.e].num_simulations

\* explicit MonteCarloPricer(const MonteCarloCreateInfo& config); the
\* caller constructs engine 1 before engine 2.
MC_construct(e, config) ==
  /\ frame.pc = "idle"
  /\ mc_life[e] = "none"
  /\ e = 1 \/ mc_life[1] = "alive"
  /\ mc_life' = [mc_life EXCEPT ![e] = "alive"]
  /\ config_' = [config_ EXCEPT ![e] = config]
  /\ rng_' = [rng_ EXCEPT ![e] = SeedRng(config.seed)]
  /\ UNCHANGED <<market, frame, mc_log, bs_vars, cdf, th>>

\* price_european_call_and_put(S0, K, r, sigma, time): the dispatch.
MC_call(e) ==
  /\ frame.pc = "idle"
  /\ mc_life[e] = "alive"
  /\ Len(mc_log[e]) < MaxCalls
  /\ frame' = IF SelectedPath(config_[e]) = "parallel"
              THEN par_enter(e, config_[e].num_simulations)
              ELSE seq_enter(e)
  /\ UNCHANGED <<market, mc_life, config_, rng_, mc_log, bs_vars, cdf, th>>

\* A step of the call that draws from the generator of the engine.
MC_draw_step(pc, s) ==
  /\ frame.pc = pc
  /\ frame.i < N_
  /\ rng_' = [rng_ EXCEPT ![frame.e] = s.rng]
  /\ frame' = s.f
  /\ UNCHANGED <<market, mc_life, config_, mc_log, bs_vars, cdf, th>>

\* A step of the call that touches its locals only.
MC_local_step(f) ==
  /\ frame' = f
  /\ UNCHANGED <<market, mc_life, config_, rng_, mc_log, bs_vars, cdf, th>>

\* The end of the call: the statistics of both payoff vectors are returned.
MC_return(path) ==
  /\ mc_log' = [mc_log EXCEPT ![frame.e] =
                  Append(@, CallRecord(path, frame, market))]
  /\ frame' = IdleFrame
  /\ UNCHANGED <<market, mc_life, config_, rng_, bs_vars, cdf, th>>

Seq_iteration ==
  frame.pc = "seq_loop"
    /\ MC_draw_step("seq_loop", seq_iteration(rng_[frame.e], frame, market))

Seq_return == frame.pc = "seq_loop" /\ frame.i >= N_ /\ MC_return("sequential")

Par_draw ==
  frame.pc = "par_draw"
    /\ MC_draw_step("par_draw", par_draw(rng_[frame.e], frame))

Par_start_prices ==
  frame.pc = "par_draw" /\ frame.i >= N_
    /\ MC_local_step(par_start_prices(frame, N_))

\* A faulty task of the first transform that draws its variate itself.
Par_price_task_draws(k) ==
  /\ frame.pc = "par_prices" /\ k \in frame.pending
  /\ \E d \in {Draw(rng_[frame.e])} :
       /\ rng_' = [rng_ EXCEPT ![frame.e] = d.rng]
       /\ frame' = par_price_task(
                     [frame EXCEPT !.random_normals[k] = d.Z,
                                   !.ndraws = frame.ndraws + 1],
                     k, market)
  /\ UNCHANGED <<market, mc_life, config_, mc_log, bs_vars, cdf, th>>

Par_price_task(k) ==
  frame.pc = "par_prices" /\ k \in frame.pending
    /\ MC_local_step(par_price_task(frame, k, market))

Par_start_calls ==
  frame.pc = "par_prices" /\ frame.pending = {}
    /\ MC_local_step(par_start_calls(frame, N_))

Par_call_task(k) ==
  frame.pc = "par_calls" /\ k \in frame.pending
    /\ MC_local_step(par_call_task(frame, k, market))

Par_start_puts ==
  frame.pc = "par_calls" /\ frame.pending = {}
    /\ MC_local_step(par_start_puts(frame, N_))

Par_put_task(k) ==
  frame.pc = "par_puts" /\ k \in frame.pending
    /\ MC_local_step(par_put_task(frame, k, market))

Par_return ==
  frame.pc = "par_puts" /\ frame.pending = {} /\ MC_return("parallel")

MC_Next ==
  \/ \E e \in Engines :
       \E config \in MonteCarloCreateInfo(0 .. MaxSims) : MC_construct(e, config)
  \/ \E e \in Engines : MC_call(e)
  \/ Seq_iteration
  \/ Seq_return
  \/ Par_draw
  \/ Par_start_prices
  \/ \E k \in 1 .. MaxSims : Par_price_task(k)
  \/ Par_start_calls
  \/ \E k \in 1 .. MaxSims : Par_call_task(k)
  \/ Par_start_puts
  \/ \E k \in 1 .. MaxSims : Par_put_task(k)
  \/ Par_return

SpecMC == MC_Init /\ [][MC_Next]_vars

(***************************************************************************)
(* One engine whose pricing calls run as wholes, with trial counts on both *)
(* sides of the threshold of policy Auto                                   *)
(***************************************************************************)

\* The configurations tried: every policy with the small trial counts,
\* policy Auto just below, at and just above its threshold, and policy
\* Sequential at the threshold.
DispatchConfigs ==
  MonteCarloCreateInfo(0 .. MaxSims)
    \cup [num_simulations :
            AutoParallelThreshold - 1 .. AutoParallelThreshold + 1,
          seed : {42}, policy : {"Auto"}]
    \cup [num_simulations : {AutoParallelThreshold},
          seed : {42}, policy : {"Sequential"}]

Dispatch_construct(config) == MC_construct(1, config)

\* A whole call of price_european_call_and_put on engine e.
Dispatch_call(e) ==
  /\ frame.pc = "idle"
  /\ mc_life[e] = "alive"
  /\ Len(mc_log[e]) < MaxCalls
  /\ \E r \in {price_european_call_and_put(rng_[e], config_[e], market, e)} :
       /\ rng_' = [rng_ EXCEPT ![e] = r.rng]
       /\ mc_log' = [mc_log EXCEPT ![e] = Append(@, r.ret)]
  /\ UNCHANGED <<market, mc_life, config_, frame, bs_vars, cdf, th>>

Dispatch_Next ==
  \/ \E config \in DispatchConfigs : Dispatch_construct(config)
  \/ Dispatch_call(1)

SpecDispatch == MC_Init /\ [][Dispatch_Next]_vars

(***************************************************************************)
(* A caller that evaluates normal_cdf(x) + normal_cdf(-x), normal_cdf run  *)
(* step by step on its call stack                                          *)
(***************************************************************************)

Cdf_Init ==
  /\ bs_life = "none"
  /\ bs_info = NoInfo
  /\ bs = NoModel
  /\ bs_log = <<>>
  /\ market = NoMarket
  /\ mc_life = [e \in Engines |-> "none"]
  /\ config_ = [e \in Engines |-> NoConfig]
  /\ rng_ = [e \in Engines |-> 0]
  /\ frame = IdleFrame
  /\ mc_log = [e \in Engines |-> <<>>]
  /\ \E x \in CdfInputs : cdf = [NoCdf EXCEPT !.x = x]
  /\ th = NoThreads

\* The frame that is running, and the stack without it.
CdfTop == cdf.stack[Len(cdf.stack)]

CdfRest == SubSeq(cdf.stack, 1, Len(cdf.stack) - 1)

\* The argument of the caller's next call: x first, then -x.
CdfArg == IF cdf.rets = <<>> THEN cdf.x ELSE HpNeg[cdf.x]

\* The running frame returns v: to the frame below it, or to the caller.
CdfReturn(v) ==
  /\ cdf' = IF CdfRest = <<>>
            THEN [cdf EXCEPT !.stack = <<>>, !.rets = Append(@, v)]
            ELSE [cdf EXCEPT !.stack =
                    Append(SubSeq(CdfRest, 1, Len(CdfRest) - 1),
                           [CdfRest[Len(CdfRest)] EXCEPT !.val = v,
                                                        !.pc = "reflected"])]
  /\ UNCHANGED <<bs_vars, mc_vars, th>>

\* The caller calls normal_cdf.
Cdf_call ==
  /\ cdf.stack = <<>>
  /\ Len(cdf.rets) < 2
  /\ cdf' = [cdf EXCEPT !.stack = <<CdfFrame(CdfArg)>>, !.refl = Append(@, 0)]
  /\ UNCHANGED <<bs_vars, mc_vars, th>>

\* if (x < 0): the recursive call normal_cdf(-x) is made.
Cdf_reflect ==
  /\ cdf.stack # <<>>
  /\ CdfTop.pc = "test"
  /\ HpLt[CdfTop.x, HpZero]
  /\ cdf' = [cdf EXCEPT
               !.stack = Append(Append(CdfRest, [CdfTop EXCEPT !.pc = "calling"]),
                                CdfFrame(HpNeg[CdfTop.x])),
               !.refl[Len(cdf.refl)] = @ + 1]
  /\ UNCHANGED <<bs_vars, mc_vars, th>>

\* return 1 - normal_cdf(-x), the recursive call having returned.
Cdf_reflect_return ==
  /\ cdf.stack # <<>>
  /\ CdfTop.pc = "reflected"
  /\ CdfReturn(HpSub[HpOne, CdfTop.val])

\* const T t = 1 / (1 + p * x)
Cdf_t ==
  /\ cdf.stack # <<>>
  /\ CdfTop.pc = "test"
  /\ ~HpLt[CdfTop.x, HpZero]
  /\ cdf' = [cdf EXCEPT !.stack[Len(cdf.stack)] =
               [CdfTop EXCEPT !.pc = "poly", !.t = t_hp[CdfTop.x]]]
  /\ UNCHANGED <<bs_vars, mc_vars, th>>

\* const T poly = ...
Cdf_poly ==
  /\ cdf.stack # <<>>
  /\ CdfTop.pc = "poly"
  /\ cdf' = [cdf EXCEPT !.stack[Len(cdf.stack)] =
               [CdfTop EXCEPT !.pc = "return", !.poly = poly_hp[CdfTop.t]]]
  /\ UNCHANGED <<bs_vars, mc_vars, th>>

\* return 1 - normal_pdf(x) * poly
Cdf_return ==
  /\ cdf.stack # <<>>
  /\ CdfTop.pc = "return"
  /\ CdfReturn(cdf_value_hp[CdfTop.x, CdfTop.poly])

Cdf_Next ==
  \/ Cdf_call
  \/ Cdf_reflect
  \/ Cdf_reflect_return
  \/ Cdf_t
  \/ Cdf_poly
  \/ Cdf_return

SpecCdf == Cdf_Init /\ [][Cdf_Next]_vars

(***************************************************************************)
(* Two threads, each making one read of the same constructed model         *)
(***************************************************************************)

Th_Init ==
  /\ \E info \in ThreadInfos :
       bs_info = info /\ bs = NewModel(info)
  /\ bs_life = "alive"
  /\ bs_log = <<>>
  /\ market = NoMarket
  /\ mc_life = [e \in Engines |-> "none"]
  /\ config_ = [e \in Engines |-> NoConfig]
  /\ rng_ = [e \in Engines |-> 0]
  /\ frame = IdleFrame
  /\ mc_log = [e \in Engines |-> <<>>]
  /\ cdf = NoCdf
  /\ th = NoThreads

\* Where a read goes on once d1_ and d2_ are there.
AfterD(op) == IF op \in {"call_price", "put_price"} THEN "price" ELSE "g_load"

\* Thread t moves to pc without touching memory.
Th_goto(t, pc) ==
  /\ th' = [th EXCEPT ![t].pc = pc]
  /\ UNCHANGED <<bs_vars, mc_vars, cdf>>

\* Thread t stores v at l and moves to pc.
Th_store(t, l, v, pc) ==
  /\ Len(th[t].buf) < MaxBuffered
  /\ th' = [th EXCEPT ![t].buf = Append(@, [l |-> l, v |-> v]), ![t].pc = pc]
  /\ UNCHANGED <<bs_vars, mc_vars, cdf>>

\* A thread calls one of the four reads.
Th_call(t, op) ==
  /\ th[t].pc = "idle"
  /\ th' = [th EXCEPT ![t].op = op,
                      ![t].pc = IF op \in {"call_greeks", "put_greeks"}
                                THEN "g_test" ELSE "d_test"]
  /\ UNCHANGED <<bs_vars, mc_vars, cdf>>

\* if (call_greeks_cached_) return;  (and the same for the put)
Th_g_test(t) ==
  /\ th[t].pc = "g_test"
  /\ Th_goto(t, IF Sees(bs, th[t].buf, GreeksFlagOf(th[t].op))
                THEN "g_ret" ELSE "d_test")

\* if (d_cached_) return;
Th_d_test(t) ==
  /\ th[t].pc = "d_test"
  /\ Th_goto(t, IF Sees(bs, th[t].buf, Member("d_cached_"))
                THEN AfterD(th[t].op) ELSE "d1")

\* d1_ = ...
Th_d1(t) ==
  /\ th[t].pc = "d1"
  /\ Th_store(t, Member("d1_"), d1_value(bs), "d2")

\* d2_ = d1_ - sigma_sqrt_T
Th_d2(t) ==
  /\ th[t].pc = "d2"
  /\ Th_store(t, Member("d2_"),
              Sub[Sees(bs, th[t].buf, Member("d1_")), sigma_sqrt_T(bs)],
              "d_flag")

\* d_cached_ = true
Th_d_flag(t) ==
  /\ th[t].pc = "d_flag"
  /\ Th_store(t, Member("d_cached_"), TRUE, AfterD(th[t].op))

\* The price is computed from d1_ and d2_ and returned.
Th_price(t) ==
  /\ th[t].pc = "price"
  /\ th' = [th EXCEPT
              ![t].ret = IF th[t].op = "call_price"
                         THEN call_price(SeenModel(bs, th[t].buf)).ret
                         ELSE put_price(SeenModel(bs, th[t].buf)).ret,
              ![t].pc = "done"]
  /\ UNCHANGED <<bs_vars, mc_vars, cdf>>

\* The Greeks are computed from d1_ and d2_.
Th_g_load(t) ==
  /\ th[t].pc = "g_load"
  /\ th' = [th EXCEPT
              ![t].g = IF th[t].op = "call_greeks"
                       THEN call_greeks_value(SeenModel(bs, th[t].buf))
                       ELSE put_greeks_value(SeenModel(bs, th[t].buf)),
              ![t].gi = 1,
              ![t].pc = "g_store"]
  /\ UNCHANGED <<bs_vars, mc_vars, cdf>>

\* call_greeks_.delta = ... and so on, one field after the other.
Th_g_store(t) ==
  /\ th[t].pc = "g_store"
  /\ Len(th[t].buf) < MaxBuffered
  /\ th' = [th EXCEPT
              ![t].buf = Append(@, [l |-> [g |-> GreeksOf(th[t].op),
                                           f |-> GreekFields[th[t].gi]],
                                    v |-> th[t].g[GreekFields[th[t].gi]]]),
              ![t].gi = @ + 1,
              ![t].pc = IF th[t].gi = Len(GreekFields)
                        THEN "g_flag" ELSE "g_store"]
  /\ UNCHANGED <<bs_vars, mc_vars, cdf>>

\* call_greeks_cached_ = true
Th_g_flag(t) ==
  /\ th[t].pc = "g_flag"
  /\ Th_store(t, GreeksFlagOf(th[t].op), TRUE, "g_ret")

\* return call_greeks_;  the caller reads the Greeks through the reference.
Th_g_ret(t) ==
  /\ th[t].pc = "g_ret"
  /\ th' = [th EXCEPT
              ![t].ret = [f \in DOMAIN Greeks0 |->
                            Sees(bs, th[t].buf,
                                 [g |-> GreeksOf(th[t].op), f |-> f])],
              ![t].pc = "done"]
  /\ UNCHANGED <<bs_vars, mc_vars, cdf>>

\* A store thread t holds back reaches the object; stores to one location
\* reach it in the order they were made.
Th_drain(t, i) ==
  /\ i \in 1 .. Len(th[t].buf)
  /\ \A j \in StoresTo(th[t].buf, th[t].buf[i].l) : j >= i
  /\ bs' = MemStore(bs, th[t].buf[i].l, th[t].buf[i].v)
  /\ th' = [th EXCEPT ![t].buf =
              SubSeq(@, 1, i - 1) \o SubSeq(@, i + 1, Len(@))]
  /\ UNCHANGED <<bs_life, bs_info, bs_log, mc_vars, cdf>>

Th_Next ==
  \E t \in Threads :
    \/ \E op \in ReadOps : Th_call(t, op)
    \/ Th_g_test(t)
    \/ Th_d_test(t)
    \/ Th_d1(t)
    \/ Th_d2(t)
    \/ Th_d_flag(t)
    \/ Th_price(t)
    \/ Th_g_load(t)
    \/ Th_g_store(t)
    \/ Th_g_flag(t)
    \/ Th_g_ret(t)
    \/ \E i \in 1 .. MaxBuffered : Th_drain(t, i)

SpecThreads == Th_Init /\ [][Th_Next]_vars

(***************************************************************************)
(* Properties of BlackScholesModel                                         *)
(***************************************************************************)

\* The value the read op returns on the object m.
ReadOn(op, m) ==
  CASE op = "call_price" -> call_price(m).ret
    [] op = "put_price" -> put_price(m).ret
    [] op = "call_greeks" -> call_greeks(m).ret
    [] op = "put_greeks" -> put_greeks(m).ret

\* The reads of the log that called op.
ReadsOf(op) == {i \in 1 .. Len(bs_log) : bs_log[i].op = op}

\* The precondition the interface documents, on the raw inputs.
InvalidParameter(info) ==
  \/ info.spot_price.v <= 0
  \/ info.strike_price.v <= 0
  \/ info.volatility.v < 0
  \/ info.time_to_maturity.v <= 0

\* C4: constructing a BlackScholesModel fails exactly when spot <= 0 or
\* strike <= 0 or volatility < 0 or maturity <= 0, whatever the rate; after
\* a failed construction there is no object and nothing has been computed
\* or returned.
C4_ConstructionFailsIffInvalid ==
  bs_life # "none" =>
    /\ bs_life = "failed" <=> InvalidParameter(bs_info)
    /\ bs_life = "failed" => bs = NoModel /\ bs_log = <<>>

\* A construction rejected for its maturity alone, at a negative rate.
C4_Witness ==
  /\ bs_life = "failed"
  /\ bs_info.spot_price.v > 0 /\ bs_info.strike_price.v > 0
  /\ bs_info.volatility.v > 0 /\ bs_info.time_to_maturity.v = 0
  /\ bs_info.risk_free_rate.v < 0

AllFinite(g) == \A f \in DOMAIN g : IsFin(g[f])

\* A returned price or Greeks set made of finite numbers only.
Numeric(op, ret) ==
  IF op \in {"call_price", "put_price"} THEN IsFin(ret) ELSE AllFinite(ret)

\* C5: on a constructed model every division of compute_d and of the gamma
\* computation has a non-zero divisor, and every read returns finite
\* numbers.
C5_NoZeroDivisor ==
  bs_life = "alive" =>
    /\ bs.d_cached_ => ~IsZero(sigma_sqrt_T(bs))
    /\ bs.call_greeks_cached_ \/ bs.put_greeks_cached_
         => ~IsZero(gamma_divisor(bs))
    /\ \A i \in 1 .. Len(bs_log) : Numeric(bs_log[i].op, bs_log[i].ret)

\* C9: every read of the log returned the value that the same read returns
\* on the freshly constructed object, so the value of a read depends neither
\* on the reads before it nor on the caches they filled, and repeated reads
\* agree.
C9_ReadsIndependentOfHistory ==
  \A i \in 1 .. Len(bs_log) :
    bs_log[i].ret = ReadOn(bs_log[i].op, NewModel(bs_info))

\* Three reads of which the last repeats the first with another in between.
C9_Witness ==
  /\ Len(bs_log) = 3
  /\ bs_log[1].op = "call_greeks"
  /\ bs_log[2].op = "put_price"
  /\ bs_log[3].op = "call_greeks"
  /\ bs.d_cached_ /\ bs.call_greeks_cached_ /\ ~bs.put_greeks_cached_

\* C10: whenever both prices have been read, call - put = S - K*e^(-rT) to
\* within the precision of T.
C10_PutCallParity ==
  \A i \in ReadsOf("call_price") : \A j \in ReadsOf("put_price") :
    Sub[bs_log[i].ret, bs_log[j].ret]
      = Sub[bs.S_, Mul[bs.K_, exp_neg_rT(bs)]]

\* The read made by a step that made one.
ReadStep == Len(bs_log') = Len(bs_log) + 1

LastRead == bs_log'[Len(bs_log')].op

\* The stored parameters.
ParamsOf(m) == <<m.S_, m.K_, m.r_, m.sigma_, m.T_>>

\* The three caches, each with its flag.
DCache(m) == <<m.d1_, m.d2_, m.d_cached_>>

CallGreeksCache(m) == <<m.call_greeks_, m.call_greeks_cached_>>

PutGreeksCache(m) == <<m.put_greeks_, m.put_greeks_cached_>>

\* A Greeks cache is filled only with d1/d2 filled.
GreeksImplyD ==
  bs_life = "alive" =>
    (bs.call_greeks_cached_ \/ bs.put_greeks_cached_ => bs.d_cached_)

\* A step on a constructed model keeps the parameters and every filled
\* cache, and fills only the caches of the read it makes.
CacheStep ==
  bs_life = "alive" =>
    /\ ParamsOf(bs') = ParamsOf(bs)
    /\ bs.d_cached_ => DCache(bs') = DCache(bs)
    /\ bs.call_greeks_cached_ => CallGreeksCache(bs') = CallGreeksCache(bs)
    /\ bs.put_greeks_cached_ => PutGreeksCache(bs') = PutGreeksCache(bs)
    /\ ReadStep =>
         /\ bs'.d_cached_
         /\ LastRead \in {"call_price", "put_price"} =>
              /\ CallGreeksCache(bs') = CallGreeksCache(bs)
              /\ PutGreeksCache(bs') = PutGreeksCache(bs)
         /\ LastRead = "call_greeks" =>
              /\ bs'.call_greeks_cached_
              /\ PutGreeksCache(bs') = PutGreeksCache(bs)
         /\ LastRead = "put_greeks" =>
              /\ bs'.put_greeks_cached_
              /\ CallGreeksCache(bs') = CallGreeksCache(bs)

\* C12: the parameters never change after construction; each cache flag
\* goes from false to true only and a cached value never changes once its
\* flag is true; call_greeks() fills d1/d2 and the call Greeks only,
\* put_greeks() d1/d2 and the put Greeks only, the prices d1/d2 only; and a
\* Greeks flag is true only with the d1/d2 flag true.
C12_CachesOnceAndIndependent == [] GreeksImplyD /\ [][CacheStep]_vars

\* The put Greeks have been read twice after a price, the call Greeks never.
C12_Witness ==
  /\ Len(bs_log) = 3
  /\ bs_log[1].op = "put_price"
  /\ bs_log[2].op = "put_greeks"
  /\ bs_log[3].op = "put_greeks"
  /\ bs.d_cached_ /\ bs.put_greeks_cached_ /\ ~bs.call_greeks_cached_
  /\ bs.put_greeks_ # Greeks0

\* A thread has returned from its read.
Returned(t) == th[t].pc = "done"

\* C14: whatever the interleaving of two threads reading one model without
\* synchronisation, each read returns the value the same read returns when
\* it is made alone on the freshly constructed model: no default-zero or
\* partly written Greeks, no price from a d1_ or d2_ not yet written.
C14_ConcurrentReadsFullyComputed ==
  \A t \in Threads :
    Returned(t) => th[t].ret = ReadOn(th[t].op, NewModel(bs_info))

(***************************************************************************)
(* Properties of MonteCarloPricer                                          *)
(***************************************************************************)

\* The completed calls of engine e, by their position in its record.
CallsOf(e) == 1 .. Len(mc_log[e])

\* The trial count engine e was configured with.
SimsOf(e) == config_[e].num_simulations

\* The state of a generator seeded with seed after k draws, and the k-th
\* variate of the sequence of that seed.
RECURSIVE RngAfter(_, _)
RngAfter(seed, k) ==
  IF k = 0 THEN SeedRng(seed) ELSE RngNext(RngAfter(seed, k - 1))

StreamOf(seed, k) == VariateOf(RngAfter(seed, k))

\* C1: every completed call ran the path its policy and trial count select:
\* Sequential the sequential one, Parallel the parallel one, Auto the
\* parallel one exactly from 10,000 trials on; and it ran that path alone,
\* making one draw per trial.
C1_PathByPolicyAndCount ==
  \A e \in Engines : \A j \in CallsOf(e) :
    /\ config_[e].policy = "Sequential" => mc_log[e][j].path = "sequential"
    /\ config_[e].policy = "Parallel" => mc_log[e][j].path = "parallel"
    /\ config_[e].policy = "Auto" =>
         (mc_log[e][j].path = "parallel" <=> SimsOf(e) >= 10000)
    /\ mc_log[e][j].path \in {"sequential", "parallel"}
    /\ mc_log[e][j].ndraws = SimsOf(e)
    /\ Len(mc_log[e][j].call_payoffs) = SimsOf(e)

\* Policy Auto with 10,000 trials, two calls made, the first one parallel.
C1_Witness ==
  /\ config_[1].policy = "Auto" /\ SimsOf(1) = 10000
  /\ Len(mc_log[1]) = 2
  /\ mc_log[1][1].path = "parallel"

\* The terminal price of a trial whose variate is Z.
PriceFrom(Z) ==
  Mul[market.S0,
      Exp[Add[Mul[Sub[market.r, Div[Mul[market.sigma, market.sigma], Two]],
                  market.time],
              Mul[Mul[market.sigma, Sqrt[market.time]], Z]]]]

\* Both payoffs of trial i of the call c come from its one terminal price.
PairedTrial(c, i) ==
  /\ c.sts[i] = PriceFrom(c.zs[i])
  /\ c.call_payoffs[i] = Max[Sub[c.sts[i], market.K], Zero]
  /\ c.put_payoffs[i] = Max[Sub[market.K, c.sts[i]], Zero]
  /\ Sub[c.call_payoffs[i], c.put_payoffs[i]] = Sub[c.sts[i], market.K]
  /\ IsZero(c.call_payoffs[i]) \/ IsZero(c.put_payoffs[i])

\* C2: in every completed call, on either path, trial i has one variate and
\* one terminal price, its call payoff is max(S_T - K, 0) and its put payoff
\* max(K - S_T, 0) of that price, so their difference is S_T - K and one of
\* them is zero; the call made one draw per trial and none for the puts.
C2_PairedPayoffs ==
  \A e \in Engines : \A j \in CallsOf(e) :
    /\ mc_log[e][j].ndraws = SimsOf(e)
    /\ Len(mc_log[e][j].zs) = SimsOf(e)
    /\ Len(mc_log[e][j].sts) = SimsOf(e)
    /\ Len(mc_log[e][j].call_payoffs) = SimsOf(e)
    /\ Len(mc_log[e][j].put_payoffs) = SimsOf(e)
    /\ \A i \in 1 .. SimsOf(e) : PairedTrial(mc_log[e][j], i)

\* The call c had two trials, the first out of and the second in the money.
MixedCall(c, path) ==
  /\ c.path = path
  /\ Len(c.sts) = 2
  /\ c.put_payoffs[1].v > 0 /\ c.call_payoffs[2].v > 0

\* A sequential call on engine 1 and a parallel call on engine 2, each with
\* a trial paying the put and a trial paying the call.
C2_Witness ==
  /\ Len(mc_log[1]) > 0 /\ MixedCall(mc_log[1][1], "sequential")
  /\ Len(mc_log[2]) > 0 /\ MixedCall(mc_log[2][1], "parallel")

FiniteResult(r) == IsFin(r.price) /\ IsFin(r.standard_error)

\* C3: no engine exists with fewer than 2 trials, so every completed call
\* computed its statistics on at least 2 payoffs and returned finite prices
\* and standard errors.
C3_SmallSampleRejected ==
  \A e \in Engines :
    /\ mc_life[e] = "alive" => SimsOf(e) >= 2
    /\ \A j \in CallsOf(e) :
         /\ Len(mc_log[e][j].call_payoffs) >= 2
         /\ FiniteResult(mc_log[e][j].result.call)
         /\ FiniteResult(mc_log[e][j].result.put)

\* C3, its consequence alone: every completed call returned finite prices
\* and standard errors.
C3_FiniteResults ==
  \A e \in Engines : \A j \in CallsOf(e) :
    /\ FiniteResult(mc_log[e][j].result.call)
    /\ FiniteResult(mc_log[e][j].result.put)

\* The stages of the parallel path that run worker tasks.
MapStages == {"par_prices", "par_calls", "par_puts"}

\* While a map stage runs, the draw stage is over: it made all the draws of
\* the call and random_normals holds the next variates of the generator as
\* it stood at the start of the draw stage, in order.
DrawsComplete ==
  frame.pc \in MapStages =>
    /\ frame.i = N_ /\ frame.ndraws = N_
    /\ Len(frame.random_normals) = N_
    /\ \A i \in 1 .. N_ :
         frame.random_normals[i]
           = StreamOf(config_[frame.e].seed, N_ * Len(mc_log[frame.e]) + i)

\* A step taken while a map stage runs leaves every generator alone.
MapStepKeepsGenerator ==
  frame.pc \in MapStages =>
    /\ rng_' = rng_
    /\ frame'.pc \in MapStages => frame'.ndraws = frame.ndraws

\* The stages follow one another in the order draws, terminal prices, call
\* payoffs, put payoffs, statistics, each map stage ending only when all its
\* tasks have run.
StageOrder ==
  /\ frame.pc = "par_draw" => frame'.pc \in {"par_draw", "par_prices"}
  /\ frame.pc = "par_prices" => frame'.pc \in {"par_prices", "par_calls"}
  /\ frame.pc = "par_calls" => frame'.pc \in {"par_calls", "par_puts"}
  /\ frame.pc = "par_puts" =>
       \/ frame'.pc = "par_puts"
       \/ /\ frame'.pc = "idle"
          /\ Len(mc_log'[frame.e]) = Len(mc_log[frame.e]) + 1
  /\ frame.pc \in MapStages /\ frame'.pc # frame.pc => frame.pending = {}
  /\ frame'.pc = "par_prices" => frame.pc \in {"par_draw", "par_prices"}
  /\ frame'.pc = "par_calls" => frame.pc \in {"par_prices", "par_calls"}
  /\ frame'.pc = "par_puts" => frame.pc \in {"par_calls", "par_puts"}

\* C6: on the parallel path all N draws are made before the first map stage
\* starts, no step of a map stage advances the generator, and the stages
\* run in the order draws, terminal prices, payoffs, statistics.
C6_DrawsOnlyInDrawStage ==
  [] DrawsComplete /\ [][MapStepKeepsGenerator /\ StageOrder]_vars

\* The second call payoff task has run before the first one, in the second
\* call of the engine.
C6_Witness ==
  /\ frame.pc = "par_calls"
  /\ N_ = 2
  /\ frame.pending = {1}
  /\ Len(mc_log[frame.e]) = 1

\* The engines a and b were given the same seed and trial count, and the
\* first call of a ran sequentially, that of b in parallel.
SequentialAndParallel(a, b) ==
  /\ config_[a].seed = config_[b].seed
  /\ SimsOf(a) = SimsOf(b)
  /\ Len(mc_log[a]) > 0 /\ mc_log[a][1].path = "sequential"
  /\ Len(mc_log[b]) > 0 /\ mc_log[b][1].path = "parallel"

\* C7: when two fresh engines with the same seed and trial count price the
\* same inputs, one sequentially and one in parallel, trial i has the same
\* variate, terminal price, call payoff and put payoff in both, and both
\* return the same prices and standard errors (the same value, a
\* not-a-number included).
C7_SequentialEqualsParallel ==
  \A a \in Engines : \A b \in Engines :
    SequentialAndParallel(a, b) =>
      /\ mc_log[a][1].zs = mc_log[b][1].zs
      /\ \A i \in 1 .. SimsOf(a) :
           mc_log[a][1].zs[i] = StreamOf(config_[a].seed, i)
      /\ mc_log[a][1].sts = mc_log[b][1].sts
      /\ mc_log[a][1].call_payoffs = mc_log[b][1].call_payoffs
      /\ mc_log[a][1].put_payoffs = mc_log[b][1].put_payoffs
      /\ mc_log[a][1].result = mc_log[b][1].result

\* Engine 1 ran sequentially and engine 2 in parallel, on seed 43 and two
\* trials whose variates differ.
C7_Witness ==
  /\ SequentialAndParallel(1, 2)
  /\ config_[1].seed = 43 /\ SimsOf(1) = 2
  /\ mc_log[2][1].zs[1] # mc_log[2][1].zs[2]

\* Between calls the generator of engine e stands SimsOf(e) draws further
\* for each call made, and call j used the draws (j-1)N+1 .. jN of the
\* sequence of the seed, in order.
DrawsAccounted(e) ==
  /\ frame.pc = "idle" /\ mc_life[e] = "alive" =>
       rng_[e] = RngAfter(config_[e].seed, SimsOf(e) * Len(mc_log[e]))
  /\ \A j \in CallsOf(e) :
       /\ mc_log[e][j].ndraws = SimsOf(e)
       /\ Len(mc_log[e][j].zs) = SimsOf(e)
       /\ \A i \in 1 .. SimsOf(e) :
            mc_log[e][j].zs[i]
              = StreamOf(config_[e].seed, (j - 1) * SimsOf(e) + i)

\* Two engines with the same configuration returned the same, call by call.
SameConfigSameResults ==
  \A a \in Engines : \A b \in Engines :
    mc_life[a] = "alive" /\ mc_life[b] = "alive" /\ config_[a] = config_[b]
      => \A j \in CallsOf(a) \cap CallsOf(b) : mc_log[a][j] = mc_log[b][j]

\* A step of a pricing call changes the generator of its engine at most:
\* no configuration, no other generator, no record of an earlier call.
CallChangesGeneratorOnly ==
  frame.pc # "idle" =>
    /\ config_' = config_ /\ mc_life' = mc_life /\ market' = market
    /\ \A e \in Engines \ {frame.e} :
         rng_'[e] = rng_[e] /\ mc_log'[e] = mc_log[e]
    /\ \A j \in CallsOf(frame.e) : mc_log'[frame.e][j] = mc_log[frame.e][j]

\* C8: a pricing call changes nothing but the generator of its engine,
\* which it advances by exactly N draws, the j-th call using the draws
\* (j-1)N+1 .. jN of the sequence of the seed; so two engines with the same
\* configuration return the same results call by call.
C8_CallAdvancesGeneratorByN ==
  /\ [] (\A e \in Engines : DrawsAccounted(e))
  /\ [] SameConfigSameResults
  /\ [][CallChangesGeneratorOnly]_vars

\* Two engines with the same configuration of two trials, two calls made on
\* each, the second call returning another price than the first.
C8_Witness ==
  /\ config_[1] = config_[2] /\ SimsOf(1) = 2
  /\ Len(mc_log[1]) = 2 /\ Len(mc_log[2]) = 2
  /\ mc_log[1][2].result.call.price # mc_log[1][1].result.call.price

\* The vectors a and b are the same except at element k.
SameBut(a, b, k) ==
  Len(a) = Len(b) /\ \A i \in 1 .. Len(a) : i # k => a[i] = b[i]

\* The step ran the task of element k of the map stage under way: k had not
\* run yet, the inputs of the stage are left as they were, and of its output
\* only element k is written, with a value made from input element k alone.
TaskOf(k) ==
  /\ frame'.pending = frame.pending \ {k}
  /\ frame'.random_normals = frame.random_normals
  /\ CASE frame.pc = "par_prices" ->
            /\ SameBut(frame'.terminal_prices, frame.terminal_prices, k)
            /\ frame'.terminal_prices[k] = PriceFrom(frame.random_normals[k])
            /\ frame'.call_payoffs = frame.call_payoffs
            /\ frame'.put_payoffs = frame.put_payoffs
       [] frame.pc = "par_calls" ->
            /\ frame'.terminal_prices = frame.terminal_prices
            /\ SameBut(frame'.call_payoffs, frame.call_payoffs, k)
            /\ frame'.call_payoffs[k]
                 = Max[Sub[frame.terminal_prices[k], market.K], Zero]
            /\ frame'.put_payoffs = frame.put_payoffs
       [] frame.pc = "par_puts" ->
            /\ frame'.terminal_prices = frame.terminal_prices
            /\ frame'.call_payoffs = frame.call_payoffs
            /\ SameBut(frame'.put_payoffs, frame.put_payoffs, k)
            /\ frame'.put_payoffs[k]
                 = Max[Sub[market.K, frame.terminal_prices[k]], Zero]

\* A step inside a map stage is the task of one element not yet run.
MapStepIsOneTask ==
  frame.pc \in MapStages /\ frame'.pc = frame.pc =>
    \E k \in frame.pending : TaskOf(k)

\* Every completed parallel call returned what the tasks run in the order
\* of their elements return, arrays and statistics alike.
ParallelAsInOrder ==
  \A e \in Engines : \A j \in CallsOf(e) :
    mc_log[e][j].path = "parallel" =>
      mc_log[e][j] =
        price_european_call_and_put_parallel(
          RngAfter(config_[e].seed, SimsOf(e) * (j - 1)),
          config_[e], market, e).ret

\* C13: in each parallel map stage the task of element i alone writes output
\* element i, from input element i alone, no element is written twice and
\* the inputs of the stage stay as they are; so whatever the order of the
\* tasks, the call returns the arrays and statistics of the in-order run.
C13_ScheduleIndependent == [] ParallelAsInOrder /\ [][MapStepIsOneTask]_vars

\* The terminal price of trial 2 is written and that of trial 1 is not yet,
\* in the second parallel call of an engine whose first was completed.
C13_Witness ==
  /\ frame.pc = "par_prices"
  /\ N_ = 2
  /\ frame.pending = {1}
  /\ frame.terminal_prices[1] = Zero /\ frame.terminal_prices[2] # Zero
  /\ Len(mc_log[frame.e]) = 1 /\ mc_log[frame.e][1].path = "parallel"

(***************************************************************************)
(* Properties of normal_cdf                                                *)
(***************************************************************************)

\* Both calls of the caller have returned.
CdfDone == Len(cdf.rets) = 2

\* normal_cdf(x) + normal_cdf(-x) is 1 to within 1e-10.
CdfSymmetric ==
  HpWithin(HpAdd[cdf.rets[1], cdf.rets[2]], HpOne, HpDec(1, 0, 0, 0, 100))

\* normal_cdf(0) is 0.5 to within 1e-7.
CdfHalfAtZero ==
  HpIsZero(cdf.x) =>
    HpWithin(cdf.rets[1], HpDec(1, 0, 5000, 0, 0), HpDec(1, 0, 0, 10, 0))

\* A call with a negative argument made one reflective call, on a positive
\* argument, and a call with another argument none; normal_cdf is never
\* more than two frames deep.
CdfReflectsOnce ==
  /\ Len(cdf.stack) <= 2
  /\ Len(cdf.stack) = 2 =>
       HpLt[cdf.stack[1].x, HpZero] /\ HpLt[HpZero, cdf.stack[2].x]
  /\ \A i \in 1 .. Len(cdf.rets) :
       cdf.refl[i] =
         IF HpLt[IF i = 1 THEN cdf.x ELSE HpNeg[cdf.x], HpZero] THEN 1 ELSE 0

\* C11: normal_cdf(x) + normal_cdf(-x) = 1 within 1e-10 for every x, zero
\* included, normal_cdf(0) = 0.5 within 1e-7, and a negative argument is
\* answered by exactly one reflective call.
C11_SymmetryLaw ==
  /\ CdfReflectsOnce
  /\ CdfDone => CdfSymmetric /\ CdfHalfAtZero

\* C11 away from zero: the law holds for every x # 0, and the other parts
\* of the claim hold for every x.
C11_SymmetryAwayFromZero ==
  /\ CdfReflectsOnce
  /\ CdfDone => CdfHalfAtZero
  /\ CdfDone /\ ~HpIsZero(cdf.x) => CdfSymmetric

====
